---- MODULE Spec2Model ----
(***************************************************************************)
(* PDFCleaner of document_viewer.py: the text normaliser (clean_text), the  *)
(* overlapping chunker (chunk_text) and the chunk highlighter               *)
(* (highlight_chunks_html).  A text is a sequence of one-character strings. *)
(***************************************************************************)
EXTENDS Integers, Sequences, FiniteSets, TLC

VARIABLES
    text,               \* the text argument of the call
    chunk_size,         \* chunk_text / highlight_chunks_html argument
    chunk_overlap,      \* chunk_text / highlight_chunks_html argument
    start,              \* chunk_text: the cursor
    chunks,             \* chunk_text: the list of (chunk, start, end)
    idx,                \* highlight_chunks_html: index of the next chunk (1-based)
    last_end,           \* highlight_chunks_html: end of the last chunk rendered
    html_parts,         \* highlight_chunks_html: the list of parts
    html,               \* highlight_chunks_html: the returned markup
    remove_line_breaks, \* clean_text argument
    remove_headers,     \* clean_text argument
    cleaned,            \* clean_text: the returned text
    pc                  \* position of the call

vars == <<text, chunk_size, chunk_overlap, start, chunks, idx, last_end,
          html_parts, html, remove_line_breaks, remove_headers, cleaned, pc>>

(***************************************************************************)
(* Bounds of the model.                                                     *)
(***************************************************************************)
MaxLen == 10
MaxSize == 5
MaxNeg == 1
MaxMarkupLen == 3
MaxCleanLen == 5
\* chunk_text's loop is cut after this many chunks (a run that ends only by
\* this cut never returns)
MaxIter == MaxLen + 2

(***************************************************************************)
(* Generic helpers.                                                         *)
(***************************************************************************)
Min(a, b) == IF a <= b THEN a ELSE b

RECURSIVE Flatten(_)
Flatten(ss) == IF ss = <<>> THEN <<>> ELSE Head(ss) \o Flatten(Tail(ss))

\* all sequences over S of length at most n
SeqsUpTo(S, n) == UNION {[1..k -> S] : k \in 0..n}

\* Python's s[lo:hi] on a sequence, negative and out-of-range indices included
PyIndex(i, n) == IF i < 0 THEN (IF i + n < 0 THEN 0 ELSE i + n)
                 ELSE (IF i > n THEN n ELSE i)
PySlice(s, lo, hi) ==
    LET l == PyIndex(lo, Len(s))
        h == PyIndex(hi, Len(s))
    IN IF l < h THEN SubSeq(s, l + 1, h) ELSE <<>>

(***************************************************************************)
(* chunk_text                                                               *)
(***************************************************************************)
\* line 101: end = min(start + chunk_size, len(text))
ChunkEnd(s, size, n) == Min(s + size, n)

\* lines 106-110: start = end - chunk_overlap; if start <= chunks[-1][1]: start = end
\* NextStart with the forward-progress guard left out (a slip C6 must detect)
NextStartNoGuard(s, e, ov) == e - ov
\* NextStart with the overlap added instead of subtracted (a slip C4 must detect)
NextStartSignSlip(s, e, ov) ==
    LET st == e + ov IN IF st <= s THEN e ELSE st
NextStart(s, e, ov) ==
    LET st == e - ov IN IF st <= s THEN e ELSE st

\* one iteration of the while loop
ChunkStep ==
    /\ pc = "loop"
    /\ start < Len(text)
    /\ Len(chunks) < MaxIter
    /\ LET end == ChunkEnd(start, chunk_size, Len(text))
           chunk == PySlice(text, start, end)
       IN /\ chunks' = Append(chunks, <<chunk, start, end>>)
          /\ start' = NextStart(start, end, chunk_overlap)
    /\ UNCHANGED <<text, chunk_size, chunk_overlap, idx, last_end, html_parts,
                   html, remove_line_breaks, remove_headers, cleaned, pc>>

\* the loop condition fails: return chunks (to highlight_chunks_html, line 126)
ChunkReturn ==
    /\ pc = "loop"
    /\ ~(start < Len(text))
    /\ pc' = "chunked"
    /\ UNCHANGED <<text, chunk_size, chunk_overlap, start, chunks, idx, last_end,
                   html_parts, html, remove_line_breaks, remove_headers, cleaned>>

(***************************************************************************)
(* highlight_chunks_html                                                    *)
(***************************************************************************)
\* line 132
Colors == <<"#FFF59D", "#B3E5FC", "#C8E6C9", "#F8BBD0", "#D1C4E9", "#FFCCBC">>

\* str.replace(c, rep) for a one-character c: rep is a sequence of characters
RECURSIVE Replace(_, _, _)
Replace(s, c, rep) ==
    IF s = <<>> THEN <<>>
    ELSE (IF Head(s) = c THEN rep ELSE <<Head(s)>>) \o Replace(Tail(s), c, rep)

\* lines 146 and 153: the chain of four replace calls, in the code's order
Escape(s) ==
    Replace(Replace(Replace(Replace(s, "&", <<"&", "a", "m", "p", ";">>),
                            "<", <<"&", "l", "t", ";">>),
                    ">", <<"&", "g", "t", ";">>),
            "\n", <<"<", "b", "r", ">">>)

\* line 147: the f-string; the opening and the closing tag are one token each
SpanOpen(color) ==
    "<span style=\"background-color: " \o color
        \o "; padding: 2px 4px; border-radius: 3px;\">"
SpanClose == "</span>"
Span(color, escaped) == <<SpanOpen(color)>> \o escaped \o <<SpanClose>>

\* line 143: the text before the chunk, appended as it is
GapPart(t, from, to) == PySlice(t, from, to)

\* lines 128-129: if not chunks: return text
HighlightEmpty ==
    /\ pc = "chunked"
    /\ chunks = <<>>
    /\ html' = text
    /\ pc' = "done"
    /\ UNCHANGED <<text, chunk_size, chunk_overlap, start, chunks, idx, last_end,
                   html_parts, remove_line_breaks, remove_headers, cleaned>>

\* lines 138-149: one iteration of the for loop (idx is 1-based here)
HighlightStep ==
    /\ pc = "chunked"
    /\ chunks # <<>>
    /\ idx <= Len(chunks)
    /\ LET c_start == chunks[idx][2]
           c_end == chunks[idx][3]
           color == Colors[((idx - 1) % Len(Colors)) + 1]
           gap == IF c_start > last_end
                  THEN <<GapPart(text, last_end, c_start)>> ELSE <<>>
           escaped_chunk == Escape(PySlice(text, c_start, c_end))
       IN /\ html_parts' = html_parts \o gap \o <<Span(color, escaped_chunk)>>
          /\ last_end' = c_end
    /\ idx' = idx + 1
    /\ UNCHANGED <<text, chunk_size, chunk_overlap, start, chunks, html,
                   remove_line_breaks, remove_headers, cleaned, pc>>

\* lines 152-155: the remaining text, then ''.join(html_parts)
HighlightReturn ==
    /\ pc = "chunked"
    /\ chunks # <<>>
    /\ idx > Len(chunks)
    /\ LET rest == IF last_end < Len(text)
                   THEN <<Escape(PySlice(text, last_end, Len(text)))>> ELSE <<>>
       IN html' = Flatten(html_parts \o rest)
    /\ pc' = "done"
    /\ UNCHANGED <<text, chunk_size, chunk_overlap, start, chunks, idx, last_end,
                   html_parts, remove_line_breaks, remove_headers, cleaned>>

(***************************************************************************)
(* The calls highlight_chunks_html(text, chunk_size, chunk_overlap) and,    *)
(* inside it, chunk_text(text, chunk_size, chunk_overlap).                  *)
(***************************************************************************)
Alphabet == <<"a", "b", "c", "d", "e", "f", "g", "h", "i", "j">>
\* "abcdefghij..." cut to n characters
Letters(n) == [i \in 1..n |-> Alphabet[((i - 1) % Len(Alphabet)) + 1]]
MarkupChars == {"a", "&", "<", ">", "\n"}
ChunkTexts == {Letters(n) : n \in 0..MaxLen} \cup SeqsUpTo(MarkupChars, MaxMarkupLen)
Params == (0 - MaxNeg)..MaxSize

Init ==
    /\ text \in ChunkTexts
    /\ chunk_size \in Params
    /\ chunk_overlap \in Params
    /\ start = 0
    /\ chunks = <<>>
    /\ idx = 1
    /\ last_end = 0
    /\ html_parts = <<>>
    /\ html = <<>>
    /\ remove_line_breaks = FALSE
    /\ remove_headers = FALSE
    /\ cleaned = <<>>
    /\ pc = "loop"

Next ==
    \/ ChunkStep
    \/ ChunkReturn
    \/ HighlightEmpty
    \/ HighlightStep
    \/ HighlightReturn

Spec == Init /\ [][Next]_vars

\* The calls with the parameters the chunker is specified for (size > 0,
\* 0 <= overlap < size).  The interpreter runs chunk_text's loop without
\* stopping: an iteration or a return that can be taken is taken.
ValidInit ==
    /\ Init
    /\ text \in {Letters(n) : n \in 0..MaxLen}
    /\ chunk_size > 0
    /\ 0 <= chunk_overlap
    /\ chunk_overlap < chunk_size

Fairness ==
    /\ WF_vars(ChunkStep)
    /\ WF_vars(ChunkReturn)

FairSpec == ValidInit /\ [][Next]_vars /\ Fairness

(***************************************************************************)
(* Properties of chunk_text                                                 *)
(***************************************************************************)
\* the parameters the chunker is specified for
Valid == chunk_size > 0 /\ 0 <= chunk_overlap /\ chunk_overlap < chunk_size
\* chunk_text has returned: chunks is its result
Returned == pc # "loop"
CeilDiv(a, b) == (a + b - 1) \div b
Starts == [i \in 1..Len(chunks) |-> chunks[i][2]]
Ends == [i \in 1..Len(chunks) |-> chunks[i][3]]

\* C1: chunk_text("abcdefghij", 4, 1) returns exactly the three chunks
\* ("abcd",0,4), ("defg",3,7), ("ghij",6,10) and none after the one ending at 10.
C1_ScenarioThreeChunks ==
    (Returned /\ text = Letters(10) /\ chunk_size = 4 /\ chunk_overlap = 1)
        => chunks = << <<SubSeq(Letters(10), 1, 4), 0, 4>>,
                       <<SubSeq(Letters(10), 4, 7), 3, 7>>,
                       <<SubSeq(Letters(10), 7, 10), 6, 10>> >>

\* C2: a non-empty text no longer than the size, with valid parameters, gives
\* exactly one chunk, (text, 0, len(text)).
C2_SingleChunk ==
    (Returned /\ Valid /\ Len(text) > 0 /\ chunk_size >= Len(text))
        => chunks = << <<text, 0, Len(text)>> >>

\* C3: for every (size, overlap) in the loop, every iteration leaves the cursor
\* strictly larger than it found it.
C3_CursorAdvances == [][ChunkStep => start' > start]_vars

\* C4: with valid parameters the ranges [start, end) of the returned chunks
\* cover [0, len(text)): the first starts at 0, each later one starts at or
\* before the previous end, the last ends at len(text).
C4_Coverage ==
    (Returned /\ Valid) =>
        /\ UNION {Starts[i]..(Ends[i] - 1) : i \in 1..Len(chunks)}
              = 0..(Len(text) - 1)
        /\ chunks # <<>> =>
              /\ Starts[1] = 0
              /\ \A i \in 2..Len(chunks) : Starts[i] <= Ends[i - 1]
              /\ Ends[Len(chunks)] = Len(text)
C4_Witness ==
    /\ Returned /\ Valid
    /\ chunk_overlap > 0
    /\ Len(text) = MaxLen
    /\ Len(chunks) >= 3

\* C5: with valid parameters the number of chunks is at most
\* ceil(L / (size - overlap)) and at least floor(L / size).
C5_ChunkCount ==
    (Returned /\ Valid) =>
        /\ Len(chunks) <= CeilDiv(Len(text), chunk_size - chunk_overlap)
        /\ Len(chunks) >= Len(text) \div chunk_size

\* every chunk so far is a non-empty window of the text holding the characters
\* at its offsets, and the starts increase strictly
ChunksWellFormed ==
    /\ \A i \in 1..Len(chunks) :
          /\ 0 <= Starts[i] /\ Starts[i] < Ends[i] /\ Ends[i] <= Len(text)
          /\ chunks[i][1] = [k \in 1..(Ends[i] - Starts[i]) |-> text[Starts[i] + k]]
    /\ \A i \in 2..Len(chunks) : Starts[i - 1] < Starts[i]

\* C6: with valid parameters (overlap = size - 1 included) every chunk
\* (t, start, end) is the characters of text at offsets start..end-1 with
\* 0 <= start < end <= len(text), the starts increase strictly, and
\* chunk_text returns.
C6_WellFormedAndTerminates ==
    /\ [](Valid => ChunksWellFormed)
    /\ (Valid ~> Returned)
C6_Witness ==
    /\ Returned /\ Valid
    /\ chunk_size >= 3
    /\ chunk_overlap = chunk_size - 1
    /\ Len(text) = MaxLen
    /\ Len(chunks) >= 3

(***************************************************************************)
(* Properties of highlight_chunks_html                                      *)
(***************************************************************************)
Entities == {<<"&", "a", "m", "p", ";">>, <<"&", "l", "t", ";">>,
             <<"&", "g", "t", ";">>}
BrTag == <<"<", "b", "r", ">">>
StartsAt(h, i, w) == i >= 1 /\ i + Len(w) - 1 <= Len(h) /\ SubSeq(h, i, i + Len(w) - 1) = w
\* no character of the markup h is a reserved character or a newline standing
\* for itself (the span tags are tokens of their own)
NoRawText(h) ==
    \A i \in 1..Len(h) :
        /\ h[i] # "\n"
        /\ h[i] = "&" => \E w \in Entities : StartsAt(h, i, w)
        /\ h[i] = "<" => StartsAt(h, i, BrTag)
        /\ h[i] = ">" => StartsAt(h, i - 3, BrTag)

\* C10: every piece of text in the returned markup (chunk, gap or rest) has
\* its &, <, > and newlines escaped.
C10_AllTextEscaped == pc = "done" => NoRawText(html)

(***************************************************************************)
(* clean_text                                                               *)
(***************************************************************************)
\* the characters \s matches
Whitespace == {" ", "\t", "\n", "\r"}
\* [.,!?;:] of lines 62-63
Punct == {".", ",", "!", "?", ";", ":"}
Digits == {"0", "1", "2", "3", "4", "5", "6", "7", "8", "9"}
LowerCase == {"a", "b", "c", "d", "e", "f", "g", "h", "i", "j", "k", "l", "m",
              "n", "o", "p", "q", "r", "s", "t", "u", "v", "w", "x", "y", "z"}
UpperCase == {"A", "B", "C", "D", "E", "F", "G", "H", "I", "J", "K", "L", "M",
              "N", "O", "P", "Q", "R", "S", "T", "U", "V", "W", "X", "Y", "Z"}
\* the characters \w matches (of the characters the model uses)
WordChars == LowerCase \cup UpperCase \cup Digits \cup {"_"}
\* line 59: the characters the filter keeps; the em dash (U+2014), the en dash
\* (U+2013) and the backtick are written by name
KeptChars == WordChars \cup Whitespace \cup Punct
                \cup {"(", ")", "-", "em-dash", "en-dash", "\"", "'", "backtick"}
\* line 72: len(line) > 20
MinLineLen == 20

\* line 52: re.sub(r'(?<!\n)\n(?!\n)', ' ', text)
FoldLineBreaks(s) ==
    [i \in 1..Len(s) |->
        IF /\ s[i] = "\n"
           /\ (i = 1 \/ s[i - 1] # "\n")
           /\ (i = Len(s) \/ s[i + 1] # "\n")
        THEN " " ELSE s[i]]

\* the length of the longest prefix of s made of characters of S
RECURSIVE RunLen(_, _)
RunLen(s, S) ==
    IF s = <<>> \/ Head(s) \notin S THEN 0 ELSE 1 + RunLen(Tail(s), S)
Drop(s, n) == SubSeq(s, n + 1, Len(s))

\* line 55: re.sub(r' +', ' ', text)
RECURSIVE CollapseSpaces(_)
CollapseSpaces(s) ==
    IF s = <<>> THEN <<>>
    ELSE IF Head(s) = " "
         THEN <<" ">> \o CollapseSpaces(Drop(s, RunLen(s, {" "})))
         ELSE <<Head(s)>> \o CollapseSpaces(Tail(s))

\* line 59: re.sub of every character outside the kept class by ""
IsKept(c) == c \in KeptChars
FilterChars(s) == SelectSeq(s, IsKept)

\* line 62: re.sub(r'\s+([.,!?;:])', r'\1', text)
RECURSIVE StripBeforePunct(_)
StripBeforePunct(s) ==
    IF s = <<>> THEN <<>>
    ELSE IF Head(s) \in Whitespace
         THEN LET n == RunLen(s, Whitespace)
              IN IF n < Len(s) /\ s[n + 1] \in Punct
                 THEN StripBeforePunct(Drop(s, n))
                 ELSE SubSeq(s, 1, n) \o StripBeforePunct(Drop(s, n))
         ELSE <<Head(s)>> \o StripBeforePunct(Tail(s))

\* line 63: re.sub(r'([.,!?;:])\s*', r'\1 ', text)
RECURSIVE SpaceAfterPunct(_)
SpaceAfterPunct(s) ==
    IF s = <<>> THEN <<>>
    ELSE IF Head(s) \in Punct
         THEN <<Head(s), " ">>
                  \o SpaceAfterPunct(Drop(Tail(s), RunLen(Tail(s), Whitespace)))
         ELSE <<Head(s)>> \o SpaceAfterPunct(Tail(s))

\* str.strip()
RECURSIVE RStrip(_)
RStrip(s) ==
    IF s # <<>> /\ s[Len(s)] \in Whitespace
    THEN RStrip(SubSeq(s, 1, Len(s) - 1)) ELSE s
Strip(s) == RStrip(Drop(s, RunLen(s, Whitespace)))

\* str.isdigit()
IsDigit(s) == s # <<>> /\ \A i \in 1..Len(s) : s[i] \in Digits

\* text.split('\n')
\* the number of characters of s before its first line break
RECURSIVE LineLen(_)
LineLen(s) == IF s = <<>> \/ Head(s) = "\n" THEN 0 ELSE 1 + LineLen(Tail(s))
RECURSIVE SplitLines(_)
SplitLines(s) ==
    LET n == LineLen(s)
    IN IF n = Len(s) THEN <<s>>
       ELSE <<SubSeq(s, 1, n)>> \o SplitLines(Drop(s, n + 1))

\* '\n\n'.join(lines)
RECURSIVE JoinLines(_)
JoinLines(ls) ==
    IF ls = <<>> THEN <<>>
    ELSE IF Len(ls) = 1 THEN Head(ls)
    ELSE Head(ls) \o <<"\n", "\n">> \o JoinLines(Tail(ls))

\* lines 69-73: strip every line, keep the long ones that are not all digits
RECURSIVE KeepLines(_)
KeepLines(ls) ==
    IF ls = <<>> THEN <<>>
    ELSE LET line == Strip(Head(ls))
         IN (IF Len(line) > MinLineLen /\ ~IsDigit(line) THEN <<line>> ELSE <<>>)
                \o KeepLines(Tail(ls))

\* lines 67-75
RemoveHeaders(s) == JoinLines(KeepLines(SplitLines(s)))

\* line 78: re.sub(r'\n{3,}', '\n\n', text)
RECURSIVE CollapseNewlines(_)
CollapseNewlines(s) ==
    IF s = <<>> THEN <<>>
    ELSE IF Head(s) = "\n"
         THEN LET n == RunLen(s, {"\n"})
              IN (IF n >= 3 THEN <<"\n", "\n">> ELSE SubSeq(s, 1, n))
                     \o CollapseNewlines(Drop(s, n))
         ELSE <<Head(s)>> \o CollapseNewlines(Tail(s))

\* lines 46-83, the stages in the code's order
clean_text(t, rlb, rh) ==
    IF t = <<>> THEN <<>>
    ELSE LET t1 == IF rlb THEN FoldLineBreaks(t) ELSE t
             t2 == CollapseSpaces(t1)
             t3 == FilterChars(t2)
             t4 == SpaceAfterPunct(StripBeforePunct(t3))
             t5 == IF rh THEN RemoveHeaders(t4) ELSE t4
             t6 == CollapseNewlines(t5)
         IN Strip(t6)

\* the call clean_text(text, remove_line_breaks, remove_headers)
CleanText ==
    /\ pc = "clean"
    /\ cleaned' = clean_text(text, remove_line_breaks, remove_headers)
    /\ pc' = "cleaned"
    /\ UNCHANGED <<text, chunk_size, chunk_overlap, start, chunks, idx, last_end,
                   html_parts, html, remove_line_breaks, remove_headers>>

\* "Hello\nworld.\n\nNew paragraph."
HelloText ==
    <<"H", "e", "l", "l", "o", "\n", "w", "o", "r", "l", "d", ".", "\n",
      "\n", "N", "e", "w", " ", "p", "a", "r", "a", "g", "r", "a", "p", "h",
      ".">>
\* "Page 3", "This is a real sentence with enough length to survive." and "12",
\* joined by single line breaks
MiddleLine ==
    <<"T", "h", "i", "s", " ", "i", "s", " ", "a", " ", "r", "e", "a", "l",
      " ", "s", "e", "n", "t", "e", "n", "c", "e", " ", "w", "i", "t", "h",
      " ", "e", "n", "o", "u", "g", "h", " ", "l", "e", "n", "g", "t", "h",
      " ", "t", "o", " ", "s", "u", "r", "v", "i", "v", "e", ".">>
PagesText ==
    <<"P", "a", "g", "e", " ", "3", "\n">> \o MiddleLine \o <<"\n", "1", "2">>
CleanChars == {"a", " ", "\n", "#", "."}
CleanTexts == {HelloText, PagesText} \cup SeqsUpTo(CleanChars, MaxCleanLen)

CleanInit ==
    /\ text \in CleanTexts
    /\ remove_line_breaks \in BOOLEAN
    /\ remove_headers \in BOOLEAN
    /\ cleaned = <<>>
    /\ chunk_size = 0
    /\ chunk_overlap = 0
    /\ start = 0
    /\ chunks = <<>>
    /\ idx = 1
    /\ last_end = 0
    /\ html_parts = <<>>
    /\ html = <<>>
    /\ pc = "clean"

CleanNext == CleanText

CleanSpec == CleanInit /\ [][CleanNext]_vars

(***************************************************************************)
(* Properties of clean_text                                                 *)
(***************************************************************************)
\* C7: with remove_line_breaks and without remove_headers, a lone line break
\* becomes a space and a double line break stays, also after a punctuation
\* mark: "Hello\nworld.\n\nNew paragraph." gives "Hello world.\n\nNew paragraph."
C7_ParagraphBreakKept ==
    (pc = "cleaned" /\ text = HelloText /\ remove_line_breaks /\ ~remove_headers)
        => cleaned =
           <<"H", "e", "l", "l", "o", " ", "w", "o", "r", "l", "d", ".", "\n", "\n",
      "N", "e", "w", " ", "p", "a", "r", "a", "g", "r", "a", "p", "h", ".">>

\* C8: clean_text is idempotent under every policy: cleaning the cleaned text
\* again changes nothing.
C8_Idempotent ==
    pc = "cleaned"
        => clean_text(cleaned, remove_line_breaks, remove_headers) = cleaned

\* C9: with remove_headers and without remove_line_breaks, the lines "Page 3",
\* the long sentence and "12" give exactly the long sentence.
C9_OnlyMiddleLineSurvives ==
    (pc = "cleaned" /\ text = PagesText /\ ~remove_line_breaks /\ remove_headers)
        => cleaned = MiddleLine

====
